---- MODULE Spec2Model ----
(***************************************************************************)
(* A model of the streaming beam search of session-rs (src/src/search.rs): *)
(* the key database, a query over it (new_query / update / finalize), the  *)
(* fractional score ordering and the heap that trims the beams.            *)
(*                                                                         *)
(* Positions in a key are 0-based as in the source; TLA+ sequences are     *)
(* 1-based, so position j of a key is features[j + 1].                     *)
(***************************************************************************)
EXTENDS Integers, Sequences, FiniteSets, TLC

\* ------------------------------------------------------------------ bounds

\* The longest fingerprint sequence a key holds.
MaxKeyLen == 3

\* The most update calls a query receives.
MaxSteps == 3

\* The most fingerprints the database holds, over all its keys.
MaxFingerprints == 4

\* ---------------------------------------------------------------- features

\* Feature(u64): the set of the positions of its 1-bits.
FeatureBits == 64

Bits == 0 .. (FeatureBits - 1)

\* The fingerprints the keys and the queries are drawn from: 0 and 0b0110.
Features == { {}, {1, 2} }

\* Distance counting the 1-bits of self.0 | other.0.
DistanceOr(a, b) == Cardinality(a \cup b)

\* Feature::distance: (self.0 ^ other.0).count_ones()
Distance(a, b) == Cardinality((a \ b) \cup (b \ a))

\* The identifiers of the keys (Uuid orders them; finalize's sort uses it).
Uuids == {1, 2}

\* ----------------------------------------------------------- configuration

\* SessionConfiguration::default, the search fields the model uses.
DefaultBeamCount == 1000
DefaultLengthPenalty == 3
DefaultScorePenalty == 100

\* DatabaseConfiguration: the fields update reads. The sizes are positive:
\* a beam count that trims to one beam, to two, or not at all, and a window
\* of one or two positions; the two penalties are the default ones, or none.
Configurations ==
    { c \in [search_beam_count : {1, 2, DefaultBeamCount},
             search_window_size : {1, 2},
             search_length_penalty : {0, DefaultLengthPenalty},
             search_score_penalty : {0, DefaultScorePenalty}] :
        (c.search_length_penalty = 0) <=> (c.search_score_penalty = 0) }

\* ---------------------------------------------------------------- Fraction

\* Byte i of a u32.
Byte(a, i) == (a \div (256 ^ i)) % 256

\* The low 32 bits of a * b, as <<high 16 bits, low 16 bits>>, computed on
\* the bytes of a and b.
MulBytes(a, b) ==
    LET a0 == Byte(a, 0)
        a1 == Byte(a, 1)
        a2 == Byte(a, 2)
        a3 == Byte(a, 3)
        b0 == Byte(b, 0)
        b1 == Byte(b, 1)
        b2 == Byte(b, 2)
        b3 == Byte(b, 3)
        c0 == a0 * b0
        s1 == a0 * b1 + a1 * b0 + (c0 \div 256)
        s2 == a0 * b2 + a1 * b1 + a2 * b0 + (s1 \div 256)
        s3 == a0 * b3 + a1 * b2 + a2 * b1 + a3 * b0 + (s2 \div 256)
    IN  << (s3 % 256) * 256 + (s2 % 256), (s1 % 256) * 256 + (c0 % 256) >>

\* u32 * u32 as the build without overflow checks computes it: the low 32
\* bits of the product, as <<high 16 bits, low 16 bits>>. Two factors below
\* 2^15 have a product below 2^30, which is its own low 32 bits.
WrappingMul(a, b) ==
    IF a < 32768 /\ b < 32768
    THEN << (a * b) \div 65536, (a * b) % 65536 >>
    ELSE MulBytes(a, b)

\* Ordering of two integers or of two sequences of integers, as -1, 0, 1.
CmpInt(a, b) == IF a < b THEN -1 ELSE IF a > b THEN 1 ELSE 0

\* Vec<usize>::cmp is lexicographic.
RECURSIVE CmpVec(_, _)
CmpVec(p, q) ==
    IF p = <<>> THEN (IF q = <<>> THEN 0 ELSE -1)
    ELSE IF q = <<>> THEN 1
    ELSE IF Head(p) # Head(q) THEN CmpInt(Head(p), Head(q))
    ELSE CmpVec(Tail(p), Tail(q))

\* impl Ord for Fraction: self.n * other.d against other.n * self.d.
FractionCmp(self, other) ==
    LET selfscore == WrappingMul(self.n, other.d)
        otherscore == WrappingMul(other.n, self.d)
    IN  CmpVec(selfscore, otherscore)

\* Fraction::to_f32: n as f32 / d as f32, an f32 m * 2^(-k) with
\* 2^23 <= m < 2^24 (or m = 0), rounded to nearest, ties to even.
\* n and d are below 2^24 here, so both conversions are exact.
RECURSIVE F32Exponent(_, _, _)
F32Exponent(n, d, k) ==
    IF (n * (2 ^ k)) \div d >= 2 ^ 23 THEN k ELSE F32Exponent(n, d, k + 1)

to_f32(score) ==
    IF score.n = 0 THEN [m |-> 0, k |-> 0]
    ELSE LET k == F32Exponent(score.n, score.d, 0)
             q == (score.n * (2 ^ k)) \div score.d
             r == (score.n * (2 ^ k)) % score.d
             up == (2 * r > score.d) \/ (2 * r = score.d /\ q % 2 = 1)
             m == IF up THEN q + 1 ELSE q
         IN  IF m = 2 ^ 24 THEN [m |-> 2 ^ 23, k |-> k - 1]
             ELSE [m |-> m, k |-> k]

\* a <= b on the f32 values to_f32 produces.
F32Leq(a, b) ==
    \/ a.m = 0
    \/ b.m # 0 /\ (a.k > b.k \/ (a.k = b.k /\ a.m <= b.m))

\* -------------------------------------------------------------------- Beam

\* struct Beam { query_start, path }, with its score: (Fraction, Beam).
key_start(beam) == beam.path[1]
key_end(beam) == beam.path[Len(beam.path)]

\* #[derive(Ord)] for Beam: query_start, then path.
BeamCmp(a, b) ==
    IF a.query_start # b.query_start
    THEN CmpInt(a.query_start, b.query_start)
    ELSE CmpVec(a.path, b.path)

\* enum Candidate { Existing(Beam), Seed(usize) }, #[derive(Ord)]: Existing
\* before Seed, then the payloads.
CandidateCmp(a, b) ==
    IF a.kind # b.kind THEN (IF a.kind = "Existing" THEN -1 ELSE 1)
    ELSE IF a.kind = "Existing" THEN BeamCmp(a.beam, b.beam)
    ELSE CmpInt(a.key_start, b.key_start)

\* The ordering of (Fraction, Candidate), the element of update's heap.
EntryCmp(a, b) ==
    LET c == FractionCmp(a.score, b.score)
    IN  IF c # 0 THEN c ELSE CandidateCmp(a.cand, b.cand)

\* to_beam rooting a seed at the step after the current one.
ToBeamNextStep(cand, query_start) ==
    IF cand.kind = "Existing" THEN cand.beam
    ELSE [query_start |-> query_start + 1, path |-> <<cand.key_start>>]

\* Candidate::to_beam
to_beam(cand, query_start) ==
    IF cand.kind = "Existing" THEN cand.beam
    ELSE [query_start |-> query_start, path |-> <<cand.key_start>>]

\* ------------------------------------------------------- Query::update

Min(a, b) == IF a < b THEN a ELSE b

\* Scores measuring every position against the key's first fingerprint.
ScoresOfFirst(features, new_feature) ==
    [j \in 1 .. Len(features) |-> Distance(new_feature, features[1])]

\* let scores = features.iter().map(|k| new_feature.distance(k)).collect()
Scores(features, new_feature) ==
    [j \in 1 .. Len(features) |-> Distance(new_feature, features[j])]

\* Window with the bound of the slice one position too far.
WindowTooWide(head, scores, cfg) ==
    LET start == head + 1
        end == Min(start + cfg.search_window_size + 1, Len(scores))
    IN  start .. (end - 1)

\* The window scores[start..end] of a beam whose key_end is head, as the
\* set of its key positions.
Window(head, scores, cfg) ==
    LET start == head + 1
        end == Min(start + cfg.search_window_size, Len(scores))
    IN  start .. (end - 1)

\* MinByKey taking the last of the least distances instead of the first.
MinByKeyLast(window, scores) ==
    CHOOSE p \in window :
        \A q \in window :
            \/ scores[p + 1] < scores[q + 1]
            \/ scores[p + 1] = scores[q + 1] /\ p >= q

\* MinByKey taking the first position of the window, whatever its distance.
MinByKeyNearest(window, scores) ==
    CHOOSE p \in window : \A q \in window : p <= q

\* .enumerate().min_by_key(|(_, &d)| d): the first position of the window
\* with the least distance.
MinByKey(window, scores) ==
    CHOOSE p \in window :
        \A q \in window :
            \/ scores[p + 1] < scores[q + 1]
            \/ scores[p + 1] = scores[q + 1] /\ p <= q

\* ExtendScore without the distance added to the numerator.
ExtendScoreNoDistance(score, distance) == [n |-> score.n, d |-> score.d + 1]

\* score.n += distance; score.d += 1
ExtendScore(score, distance) == [n |-> score.n + distance, d |-> score.d + 1]

\* The body of `for (mut score, mut beam) in beams.drain(..)` up to the table
\* entry: the beam is extended when its window is not empty, and is left
\* as it is otherwise.
Extend(sb, scores, cfg) ==
    LET window == Window(key_end(sb.beam), scores, cfg)
    IN  IF window = {} THEN sb
        ELSE LET p == MinByKey(window, scores)
             IN  [score |-> ExtendScore(sb.score, scores[p + 1]),
                  beam |-> [query_start |-> sb.beam.query_start,
                            path |-> Append(sb.beam.path, p)]]

\* Compete with the Occupied arm replacing on an equal score too.
CompeteLeq(table, key, entry) ==
    IF key \notin DOMAIN table
    THEN [k \in DOMAIN table \cup {key} |->
            IF k = key THEN entry ELSE table[k]]
    ELSE IF FractionCmp(entry.score, table[key].score) <= 0
    THEN [table EXCEPT ![key] = entry]
    ELSE table

\* Compete with the Occupied arm replacing whatever is held.
CompeteLast(table, key, entry) ==
    [k \in DOMAIN table \cup {key} |-> IF k = key THEN entry ELSE table[k]]

\* recomb_table.entry(key): Vacant inserts, Occupied replaces only when the
\* new score is Ordering::Less than the one held.
Compete(table, key, entry) ==
    IF key \notin DOMAIN table
    THEN [k \in DOMAIN table \cup {key} |->
            IF k = key THEN entry ELSE table[k]]
    ELSE IF FractionCmp(entry.score, table[key].score) = -1
    THEN [table EXCEPT ![key] = entry]
    ELSE table

\* RecombKey taking the other end of the path.
RecombKeyStart(beam) == key_start(beam)

\* The key an extended beam is entered under: recomb_table.entry(beam.key_end())
RecombKey(beam) == key_end(beam)

\* combine with existing beams: the beams in the order the vector holds them.
RECURSIVE ExtendBeams(_, _, _, _)
ExtendBeams(table, beams, scores, cfg) ==
    IF beams = <<>> THEN table
    ELSE LET e == Extend(Head(beams), scores, cfg)
         IN  ExtendBeams(
                 Compete(table, RecombKey(e.beam),
                         [score |-> e.score,
                          cand |-> [kind |-> "Existing", beam |-> e.beam]]),
                 Tail(beams), scores, cfg)

\* SeedScore without the seed's own position in the denominator.
SeedScoreNoLength(distance, cfg) ==
    [n |-> cfg.search_score_penalty + distance,
     d |-> cfg.search_length_penalty]

\* Fraction { n: search_score_penalty + distance, d: search_length_penalty + 1 }
SeedScore(distance, cfg) ==
    [n |-> cfg.search_score_penalty + distance,
     d |-> cfg.search_length_penalty + 1]

\* seed new beams: for (key_start, distance) in scores.into_iter().enumerate()
RECURSIVE SeedBeams(_, _, _, _)
SeedBeams(table, scores, j, cfg) ==
    IF j >= Len(scores) THEN table
    ELSE SeedBeams(
             Compete(table, j,
                     [score |-> SeedScore(scores[j + 1], cfg),
                      cand |-> [kind |-> "Seed", key_start |-> j]]),
             scores, j + 1, cfg)

EmptyTable == [k \in {} |-> 0]

\* The recombination table of one key after the extension and the seeding.
RecombTable(features, beams, new_feature, cfg) ==
    LET scores == Scores(features, new_feature)
    IN  SeedBeams(ExtendBeams(EmptyTable, beams, scores, cfg), scores, 0, cfg)

\* ------------------------------------------------------------- BinaryHeap

\* data[i] and data[i] = v for a 0-based index i, as the heap's code counts.
At(data, i) == data[i + 1]
Put(data, i, v) == [data EXCEPT ![i + 1] = v]

\* BinaryHeap::sift_down_range(pos, end) with the element x taken out of
\* data[pos]: x sinks while its greater child is greater than it.
RECURSIVE SiftDownRange(_, _, _, _)
SiftDownRange(data, x, pos, end) ==
    LET child == 2 * pos + 1
    IN  IF child <= end - 2
        THEN LET c == IF EntryCmp(At(data, child), At(data, child + 1)) <= 0
                      THEN child + 1 ELSE child
             IN  IF EntryCmp(x, At(data, c)) >= 0 THEN Put(data, pos, x)
                 ELSE SiftDownRange(Put(data, pos, At(data, c)), x, c, end)
        ELSE IF child = end - 1 /\ EntryCmp(x, At(data, child)) < 0
        THEN Put(Put(data, pos, At(data, child)), child, x)
        ELSE Put(data, pos, x)

\* BinaryHeap::rebuild: n = len / 2; while n > 0 { n -= 1; sift_down(n) }
RECURSIVE Rebuild(_, _)
Rebuild(data, n) ==
    IF n = 0 THEN data
    ELSE Rebuild(SiftDownRange(data, At(data, n - 1), n - 1, Len(data)), n - 1)

\* BinaryHeap::sift_up(start, pos) with the element x taken out of data[pos].
RECURSIVE SiftUp(_, _, _, _)
SiftUp(data, x, start, pos) ==
    IF pos > start
    THEN LET parent == (pos - 1) \div 2
         IN  IF EntryCmp(x, At(data, parent)) <= 0 THEN Put(data, pos, x)
             ELSE SiftUp(Put(data, pos, At(data, parent)), x, start, parent)
    ELSE Put(data, pos, x)

\* BinaryHeap::sift_down_to_bottom(pos): x goes down along the greater
\* children to a leaf, and is then sifted up from there.
RECURSIVE SiftDownToBottom(_, _, _, _)
SiftDownToBottom(data, x, start, pos) ==
    LET end == Len(data)
        child == 2 * pos + 1
    IN  IF child <= end - 2
        THEN LET c == IF EntryCmp(At(data, child), At(data, child + 1)) <= 0
                      THEN child + 1 ELSE child
             IN  SiftDownToBottom(Put(data, pos, At(data, c)), x, start, c)
        ELSE IF child = end - 1
        THEN SiftUp(Put(data, pos, At(data, child)), x, start, child)
        ELSE SiftUp(data, x, start, pos)

\* pop taking the last element of the vector instead of the root.
PopLast(data) == SubSeq(data, 1, Len(data) - 1)

\* BinaryHeap::pop: the last element takes the root's place and sinks.
Pop(data) ==
    LET rest == SubSeq(data, 1, Len(data) - 1)
    IN  IF rest = <<>> THEN rest
        ELSE SiftDownToBottom(rest, data[Len(data)], 0, 0)

\* Trim stopping one element early.
RECURSIVE TrimOffByOne(_, _)
TrimOffByOne(heap, cfg) ==
    IF Len(heap) > cfg.search_beam_count + 1
    THEN TrimOffByOne(Pop(heap), cfg) ELSE heap

\* Trim with >= for >: one element too many is popped.
RECURSIVE TrimTooFar(_, _)
TrimTooFar(heap, cfg) ==
    IF Len(heap) >= cfg.search_beam_count /\ heap # <<>>
    THEN TrimTooFar(Pop(heap), cfg) ELSE heap

\* while heap.len() > cfg.search_beam_count { heap.pop(); }
RECURSIVE Trim(_, _)
Trim(heap, cfg) ==
    IF Len(heap) > cfg.search_beam_count THEN Trim(Pop(heap), cfg) ELSE heap

\* The orders in which a collection of distinct values can be enumerated.
Orders(S) ==
    { o \in [1 .. Cardinality(S) -> S] : \A x \in S : \E i \in DOMAIN o : o[i] = x }

\* recomb_table.into_values(): HashMap fixes no order of enumeration.
IntoValues(table) == Orders({ table[k] : k \in DOMAIN table })

\* The values in the order of their keys, one of the orders of IntoValues.
RECURSIVE ValuesByKey(_)
ValuesByKey(table) ==
    IF DOMAIN table = {} THEN <<>>
    ELSE LET last == CHOOSE k \in DOMAIN table : \A j \in DOMAIN table : j <= k
         IN  Append(ValuesByKey([k \in DOMAIN table \ {last} |-> table[k]]),
                    table[last])

\* heap.drain().map(|(score, cand)| (score, cand.to_beam(self.head))): the
\* heap's vector in its own order.
Materialize(heap, head) ==
    [i \in 1 .. Len(heap) |->
        [score |-> heap[i].score, beam |-> to_beam(heap[i].cand, head)]]

\* The body of update's loop for one key, from the values of the table in
\* the order `values`: collect into a heap, trim, drain.
TrimAndDrain(values, head, cfg) ==
    Materialize(Trim(Rebuild(values, Len(values) \div 2), cfg), head)

\* The beams one key can hold after update(new_feature).
UpdateKey(features, beams, new_feature, head, cfg) ==
    { TrimAndDrain(values, head, cfg) :
        values \in IntoValues(RecombTable(features, beams, new_feature, cfg)) }

\* The same with the table enumerated in the order of its keys.
UpdateKeyByKey(features, beams, new_feature, head, cfg) ==
    TrimAndDrain(ValuesByKey(RecombTable(features, beams, new_feature, cfg)),
                 head, cfg)

\* ----------------------------------------------------- Query::finalize

\* The ordering of (Fraction, &Uuid, Beam), the element of finalize's heap.
ResultCmp(a, b) ==
    LET c == FractionCmp(a.score, b.score)
    IN  IF c # 0 THEN c
        ELSE IF a.uuid # b.uuid THEN CmpInt(a.uuid, b.uuid)
        ELSE BeamCmp(a.beam, b.beam)

\* .flat_map(|(uuid, _, beams)| beams.into_iter().map(|(score, beam)|
\* (score, uuid, beam))), the keys taken in the order `uuids`.
RECURSIVE FlatMap(_, _)
FlatMap(uuids, beams) ==
    IF uuids = <<>> THEN <<>>
    ELSE [i \in 1 .. Len(beams[Head(uuids)]) |->
            [score |-> beams[Head(uuids)][i].score,
             uuid |-> Head(uuids),
             beam |-> beams[Head(uuids)][i].beam]]
         \o FlatMap(Tail(uuids), beams)

\* s without its i-th element.
Without(s, i) == SubSeq(s, 1, i - 1) \o SubSeq(s, i + 1, Len(s))

\* into_sorted_vec followed by a reverse: descending.
RECURSIVE SortedVecReversed(_)
SortedVecReversed(heap) ==
    IF heap = <<>> THEN <<>>
    ELSE LET i == CHOOSE i \in DOMAIN heap :
                    \A j \in DOMAIN heap :
                        \/ ResultCmp(heap[i], heap[j]) > 0
                        \/ ResultCmp(heap[i], heap[j]) = 0 /\ i <= j
         IN  <<heap[i]>> \o SortedVecReversed(Without(heap, i))

\* BinaryHeap::into_sorted_vec: ascending in the elements' ordering.
RECURSIVE into_sorted_vec(_)
into_sorted_vec(heap) ==
    IF heap = <<>> THEN <<>>
    ELSE LET i == CHOOSE i \in DOMAIN heap :
                    \A j \in DOMAIN heap :
                        \/ ResultCmp(heap[i], heap[j]) < 0
                        \/ ResultCmp(heap[i], heap[j]) = 0 /\ i <= j
         IN  <<heap[i]>> \o into_sorted_vec(Without(heap, i))

\* QueryResult { uuid, score: score.to_f32(), key_start, key_end, query_start }
ToQueryResult(e) ==
    [uuid |-> e.uuid,
     score |-> to_f32(e.score),
     key_start |-> key_start(e.beam),
     key_end |-> key_end(e.beam),
     query_start |-> e.beam.query_start]

\* finalize, the keys of song_beams enumerated in the order `uuids`.
FinalizeIn(uuids, beams) ==
    LET sorted == into_sorted_vec(FlatMap(uuids, beams))
    IN  [i \in 1 .. Len(sorted) |-> ToQueryResult(sorted[i])]

\* ------------------------------------------------------ FeatureExtractor

\* SessionConfiguration::default, the extractor fields the model uses.
DefaultWindowSize == 4096
DefaultWindowStride == 2048
DefaultBinsPerOctave == 12
DefaultBitsPerBin == 5
DefaultTopk == 8

\* FeatureExtractorConfiguration: the fields features() reads.
DefaultExtractor ==
    [window_size |-> DefaultWindowSize,
     window_stride |-> DefaultWindowStride,
     chroma_bins_per_octave |-> DefaultBinsPerOctave,
     quantizer_bits_per_bin |-> DefaultBitsPerBin,
     quantizer_topk |-> DefaultTopk]

\* A small extractor: windows of two samples at every sample, three chroma
\* bins of two bits each, all of them ranked.
SmallExtractor ==
    [window_size |-> 2,
     window_stride |-> 1,
     chroma_bins_per_octave |-> 3,
     quantizer_bits_per_bin |-> 2,
     quantizer_topk |-> 3]

\* The same with a stride longer than the window, which nothing in the
\* construction of an extractor refuses.
SparseExtractor == [SmallExtractor EXCEPT !.window_stride = 3]

\* The longest audio, in samples, beside the lengths around one and two
\* windows of the extractor.
MaxAudioLen == 4

\* The lengths of the audio passed to features().
AudioLengths(e) ==
    (0 .. MaxAudioLen)
        \cup { e.window_size - 1, e.window_size,
               e.window_size + e.window_stride - 1,
               e.window_size + e.window_stride }

\* WindowsLen counting the windows' starts one short.
WindowsLenShort(n, size) == IF n >= size THEN n - size ELSE 0

\* audio.windows(window_size).len()
WindowsLen(n, size) == IF n >= size THEN n - size + 1 ELSE 0

\* .step_by(window_stride).len(): the first window, then every step-th.
StepByLen(len, step) == IF len = 0 THEN 0 ELSE 1 + (len - 1) \div step

\* The rows of the spectrogram: DMatrix::zeros(windows.len(), output.len())
Rows(n, e) == StepByLen(WindowsLen(n, e.window_size), e.window_stride)

RECURSIVE GCD(_, _)
GCD(a, b) == IF b = 0 THEN a ELSE GCD(b, a % b)

\* sorted_chroma after sort_unstable_by: the bins' indices in the ascending
\* order of their chroma values. The values are floating-point sums the
\* model does not compute; the orders taken are the bins in a rotation
\* read at a step coprime to their number (all orders of three bins).
Rankings(bins) ==
    { [i \in 1 .. bins |-> (a * (i - 1) + b) % bins] :
        a \in { x \in 1 .. bins : GCD(x, bins) = 1 }, b \in 0 .. (bins - 1) }

\* QuantizeBin with one thermometer level more than the slot has bits.
QuantizeBinWide(new_index, e) ==
    (new_index * (e.quantizer_bits_per_bin + 2)) \div e.quantizer_topk

\* let bin = new_index * (cfg.quantizer_bits_per_bin + 1) / cfg.quantizer_topk
QuantizeBin(new_index, e) ==
    (new_index * (e.quantizer_bits_per_bin + 1)) \div e.quantizer_topk

\* ((1u64 << bin) - 1) << shift: bin 1-bits from bit `shift` up, those
\* past bit 63 shifted out.
Tempcode(bin, shift) == { b \in Bits : shift <= b /\ b < shift + bin }

\* The fingerprint of one chroma vector: the topk last of sorted_chroma,
\* each a thermometer code in its bin's slot, or-ed together.
Quantize(sorted_chroma, e) ==
    LET skip == Len(sorted_chroma) - e.quantizer_topk
    IN  UNION { Tempcode(QuantizeBin(new_index, e),
                         sorted_chroma[skip + 1 + new_index]
                             * e.quantizer_bits_per_bin) :
                new_index \in 0 .. (e.quantizer_topk - 1) }

\* FeatureExtractor::features on an audio of n samples whose windows'
\* chroma vectors sort as `sorted`.
FeaturesOf(sorted, e) == [r \in DOMAIN sorted |-> Quantize(sorted[r], e)]

\* impl From<u64> for Feature, the u64 written as its binary digits, the
\* most significant first: 0b1010 is <<1, 0, 1, 0>>.
FromBinary(digits) ==
    { Len(digits) - j : j \in { i \in DOMAIN digits : digits[i] = 1 } }

\* !f on the 64 bits of a Feature.
Complement(f) == Bits \ f

\* The fingerprints distance() is called on: 0, 0b1010, 0b1100, 1, 2^63,
\* 2^32 - 1, and their complements (that of 0 is u64::MAX).
DistanceInputs ==
    LET some == { {}, FromBinary(<<1, 0, 1, 0>>), FromBinary(<<1, 1, 0, 0>>),
                  FromBinary(<<1>>), {FeatureBits - 1}, 0 .. 31 }
    IN  some \cup { Complement(f) : f \in some }

\* ----------------------------------------------------------------- Session

\* SessionConfiguration::default, search_window_size.
DefaultSearchWindowSize == 3

\* SessionConfiguration::default(), the fields the model uses.
DefaultSession ==
    [window_size |-> DefaultWindowSize,
     window_stride |-> DefaultWindowStride,
     chroma_bins_per_octave |-> DefaultBinsPerOctave,
     quantizer_bits_per_bin |-> DefaultBitsPerBin,
     quantizer_topk |-> DefaultTopk,
     search_beam_count |-> DefaultBeamCount,
     search_window_size |-> DefaultSearchWindowSize,
     search_length_penalty |-> DefaultLengthPenalty,
     search_score_penalty |-> DefaultScorePenalty]

\* impl From<&SessionConfiguration> for FeatureExtractorConfiguration
ExtractorConfigurationFrom(value) ==
    [window_size |-> value.window_size,
     window_stride |-> value.window_stride,
     chroma_bins_per_octave |-> value.chroma_bins_per_octave,
     quantizer_bits_per_bin |-> value.quantizer_bits_per_bin,
     quantizer_topk |-> value.quantizer_topk]

\* impl From<&SessionConfiguration> for DatabaseConfiguration
DatabaseConfigurationFrom(value) ==
    [search_beam_count |-> value.search_beam_count,
     search_window_size |-> value.search_window_size,
     search_length_penalty |-> value.search_length_penalty,
     search_score_penalty |-> value.search_score_penalty]

\* The default session with the small extractor's fields.
SmallSession ==
    [DefaultSession EXCEPT !.window_size = SmallExtractor.window_size,
                           !.window_stride = SmallExtractor.window_stride,
                           !.chroma_bins_per_octave =
                               SmallExtractor.chroma_bins_per_octave,
                           !.quantizer_bits_per_bin =
                               SmallExtractor.quantizer_bits_per_bin,
                           !.quantizer_topk = SmallExtractor.quantizer_topk]

\* The configurations a Session is built from: the default one, the small
\* one, and the small one with a stride longer than its window, with more
\* top ranks than bins, with bins of 22 bits (66 bits in all), with no
\* beam, and with an empty search window.
SessionConfigurations ==
    { DefaultSession,
      SmallSession,
      [SmallSession EXCEPT !.window_stride = 3],
      [SmallSession EXCEPT !.quantizer_topk = 4],
      [SmallSession EXCEPT !.quantizer_bits_per_bin = 22],
      [SmallSession EXCEPT !.search_beam_count = 0],
      [SmallSession EXCEPT !.search_window_size = 0] }

\* The text of an identifier is the sequence of its characters.
LowerHex == << "0", "1", "2", "3", "4", "5", "6", "7",
               "8", "9", "a", "b", "c", "d", "e", "f" >>
UpperHex == << "0", "1", "2", "3", "4", "5", "6", "7",
               "8", "9", "A", "B", "C", "D", "E", "F" >>

IsHex(c) == \E i \in 1 .. 16 : LowerHex[i] = c \/ UpperHex[i] = c
HexValue(c) == (CHOOSE i \in 1 .. 16 : LowerHex[i] = c \/ UpperHex[i] = c) - 1

\* 32 hexadecimal digits.
IsSimple(s) == Len(s) = 32 /\ \A i \in 1 .. 32 : IsHex(s[i])

\* 8-4-4-4-12 hexadecimal digits, hyphens between the groups.
IsHyphenated(s) ==
    /\ Len(s) = 36
    /\ \A i \in 1 .. 36 :
           IF i \in {9, 14, 19, 24} THEN s[i] = "-" ELSE IsHex(s[i])

UrnPrefix == << "u", "r", "n", ":", "u", "u", "i", "d", ":" >>

\* uuid::Uuid::try_parse: the simple form, the hyphenated form, the
\* hyphenated form in braces or after urn:uuid: ; the Uuid is its 32
\* hexadecimal digits' values.
try_parse(s) ==
    LET inner == IF Len(s) = 38 /\ s[1] = "{" /\ s[38] = "}"
                 THEN SubSeq(s, 2, 37)
                 ELSE IF Len(s) = 45 /\ SubSeq(s, 1, 9) = UrnPrefix
                 THEN SubSeq(s, 10, 45)
                 ELSE s
        digits == SelectSeq(inner, IsHex)
    IN  IF IsSimple(s) \/ IsHyphenated(inner)
        THEN [ok |-> TRUE, uuid |-> [i \in 1 .. 32 |-> HexValue(digits[i])]]
        ELSE [ok |-> FALSE]

\* s repeated: n times the character c.
Repeat(c, n) == [i \in 1 .. n |-> c]

\* The uuid 0...01 in the simple form, in the hyphenated form and in
\* braces, and the uuid 0...0Ab in the simple form.
IdSimple == Repeat("0", 31) \o << "1" >>
IdHyphenated ==
    Repeat("0", 8) \o << "-" >> \o Repeat("0", 4) \o << "-" >>
        \o Repeat("0", 4) \o << "-" >> \o Repeat("0", 4) \o << "-" >>
        \o Repeat("0", 11) \o << "1" >>
IdBraced == << "{" >> \o IdHyphenated \o << "}" >>
IdOther == Repeat("0", 30) \o << "A", "b" >>

ParsableIdentifiers == { IdSimple, IdHyphenated, IdBraced, IdOther }

\* Texts that are no uuid: the empty text, 31 and 33 digits, 32 characters
\* with one that is no hexadecimal digit, 36 characters with the first
\* hyphen one place late, an opening brace without the closing one, and a
\* word.
UnparsableIdentifiers ==
    { << >>,
      Repeat("0", 31),
      Repeat("0", 33),
      Repeat("0", 31) \o << "g" >>,
      Repeat("0", 9) \o << "-" >> \o SubSeq(IdHyphenated, 11, 36),
      << "{" >> \o IdHyphenated,
      << "n", "o", "t", "-", "a", "-", "u", "u", "i", "d" >> }

\* The longest audio, in samples, passed to register.
MaxRegisterLen == 2

\* No call yet.
NoCall == [op |-> "none"]

\* ------------------------------------------------------------------- state

VARIABLES
    cfg,            \* Database.cfg, the search fields
    database,       \* Database.database: uuid -> fingerprint sequence
    pc,             \* "setup": no query yet; "query": a query is live;
                    \* "done": the query is finalized
    head,           \* Query.head
    song_beams,     \* Query.song_beams: uuid -> the key's (score, beam) vector
    fed,            \* the fingerprints passed to update so far, in order
    results,        \* what finalize returned
    rerun_beams,    \* song_beams of a second run on the same inputs, whose
                    \* tables enumerate in the order of their keys
    rerun_results,  \* what finalize returns in that second run
    extractor,      \* FeatureExtractor.cfg, the fields features() reads
    call            \* the last call of Session::register, of
                    \* FeatureExtractor::features or of Feature::distance:
                    \* its arguments and what it returned

vars == <<cfg, database, pc, head, song_beams, fed, results,
          rerun_beams, rerun_results, extractor, call>>

\* The fingerprint sequences of at most n fingerprints.
FeatureSeqs(n) == UNION { [1 .. k -> Features] : k \in 0 .. n }

\* Database::from(cfg): no key yet.
Init ==
    /\ cfg \in Configurations
    /\ database = [k \in {} |-> <<>>]
    /\ pc = "setup"
    /\ head = 0
    /\ song_beams = [k \in {} |-> <<>>]
    /\ fed = <<>>
    /\ results = <<>>
    /\ rerun_beams = [k \in {} |-> <<>>]
    /\ rerun_results = <<>>
    /\ extractor = DefaultExtractor
    /\ call = NoCall

\* Database::insert(key, features): HashMap::insert adds or replaces.
InsertInto(db, key, features) ==
    [k \in DOMAIN db \cup {key} |-> IF k = key THEN features ELSE db[k]]

\* The number of fingerprints a database holds.
RECURSIVE TotalLen(_)
TotalLen(db) ==
    IF DOMAIN db = {} THEN 0
    ELSE LET k == CHOOSE k \in DOMAIN db : TRUE
         IN  Len(db[k]) + TotalLen([j \in DOMAIN db \ {k} |-> db[j]])

Insert(key, features) ==
    /\ pc = "setup"
    /\ TotalLen(InsertInto(database, key, features)) <= MaxFingerprints
    /\ database' = InsertInto(database, key, features)
    /\ UNCHANGED <<cfg, pc, head, song_beams, fed, results,
                   rerun_beams, rerun_results, extractor, call>>

\* new_query starting every key that has a fingerprint with a beam at its
\* first position.
NewQuerySeeded(db) ==
    [k \in DOMAIN db |->
        IF db[k] = <<>> THEN <<>>
        ELSE << [score |-> [n |-> 0, d |-> 1],
                 beam |-> [query_start |-> 0, path |-> <<0>>]] >>]

\* Database::new_query: an empty beam vector for every key, head = 0.
NewQueryBeams(db) == [k \in DOMAIN db |-> <<>>]

NewQuery ==
    /\ pc = "setup"
    /\ pc' = "query"
    /\ head' = 0
    /\ song_beams' = NewQueryBeams(database)
    /\ rerun_beams' = NewQueryBeams(database)
    /\ UNCHANGED <<cfg, database, fed, results, rerun_results,
                   extractor, call>>

\* Query::update(new_feature): every key's beams are extended, reseeded,
\* recombined and trimmed; then head += 1.
Update(new_feature) ==
    /\ pc = "query"
    /\ head < MaxSteps
    /\ LET outcomes == [k \in DOMAIN song_beams |->
                           UpdateKey(database[k], song_beams[k], new_feature,
                                     head, cfg)]
       IN  song_beams' \in
               { f \in [DOMAIN song_beams ->
                          UNION { outcomes[k] : k \in DOMAIN song_beams }] :
                   \A k \in DOMAIN song_beams : f[k] \in outcomes[k] }
    /\ rerun_beams' = [k \in DOMAIN rerun_beams |->
                          UpdateKeyByKey(database[k], rerun_beams[k],
                                         new_feature, head, cfg)]
    /\ head' = head + 1
    /\ fed' = Append(fed, new_feature)
    /\ UNCHANGED <<cfg, database, pc, results, rerun_results,
                   extractor, call>>

\* Query::finalize: the query is consumed and the ranked results returned.
Finalize ==
    /\ pc = "query"
    /\ pc' = "done"
    /\ \E uuids \in Orders(DOMAIN song_beams) :
           results' = FinalizeIn(uuids, song_beams)
    /\ rerun_results' = FinalizeIn(ValuesByKey([k \in DOMAIN rerun_beams |-> k]),
                                   rerun_beams)
    /\ UNCHANGED <<cfg, database, head, song_beams, fed, rerun_beams,
                   extractor, call>>

Next ==
    \/ \E key \in Uuids, features \in FeatureSeqs(MaxKeyLen) :
           Insert(key, features)
    \/ NewQuery
    \/ \E new_feature \in Features : Update(new_feature)
    \/ Finalize

Spec == Init /\ [][Next]_vars

\* ------------------------------------------- the extractor and distance

\* A FeatureExtractor built from one of the extractor configurations; no
\* database is involved.
FeatureInit ==
    /\ extractor \in {DefaultExtractor, SmallExtractor, SparseExtractor}
    /\ cfg = DatabaseConfigurationFrom(DefaultSession)
    /\ database = [k \in {} |-> <<>>]
    /\ pc = "setup"
    /\ head = 0
    /\ song_beams = [k \in {} |-> <<>>]
    /\ fed = <<>>
    /\ results = <<>>
    /\ rerun_beams = [k \in {} |-> <<>>]
    /\ rerun_results = <<>>
    /\ call = NoCall

\* FeatureExtractor::features(audio) on an audio of n samples: one
\* fingerprint per window, quantized from the order of its chroma values.
\* features() and distance() take &self and leave no state behind, so a
\* behaviour makes one call.
ExtractFeatures(n) ==
    /\ call = NoCall
    /\ \E sorted \in [1 .. Rows(n, extractor) ->
                         Rankings(extractor.chroma_bins_per_octave)] :
           call' = [op |-> "features", audio |-> n,
                    ret |-> FeaturesOf(sorted, extractor)]
    /\ UNCHANGED <<cfg, database, pc, head, song_beams, fed, results,
                   rerun_beams, rerun_results, extractor>>

\* Feature::distance(&self, other)
FeatureDistance(self, other) ==
    /\ call = NoCall
    /\ call' = [op |-> "distance", self |-> self, other |-> other,
                ret |-> Distance(self, other)]
    /\ UNCHANGED <<cfg, database, pc, head, song_beams, fed, results,
                   rerun_beams, rerun_results, extractor>>

FeatureNext ==
    \/ \E n \in AudioLengths(extractor) : ExtractFeatures(n)
    \/ \E self \in DistanceInputs, other \in DistanceInputs :
           FeatureDistance(self, other)

FeatureSpec == FeatureInit /\ [][FeatureNext]_vars

\* ------------------------------------------------------------ the Session

\* Session::new(cfg): the extractor and the database are built from the
\* configuration's two halves, whatever it holds.
SessionInit ==
    /\ \E value \in SessionConfigurations :
           /\ extractor = ExtractorConfigurationFrom(value)
           /\ cfg = DatabaseConfigurationFrom(value)
    /\ database = [k \in {} |-> <<>>]
    /\ pc = "setup"
    /\ head = 0
    /\ song_beams = [k \in {} |-> <<>>]
    /\ fed = <<>>
    /\ results = <<>>
    /\ rerun_beams = [k \in {} |-> <<>>]
    /\ rerun_results = <<>>
    /\ call = NoCall

\* features() panics on its first window when quantizer_topk exceeds the
\* number of bins: sorted_chroma.len() - cfg.quantizer_topk underflows, or
\* wraps into a drain range past the vector's end.
FeaturesPanics(n, e) ==
    Rows(n, e) >= 1 /\ e.quantizer_topk > e.chroma_bins_per_octave

\* register without the early return: a text that is no uuid stores the
\* fingerprints under the nil uuid.
RegisterUnchecked(db, parsed, feats) ==
    IF parsed.ok
    THEN [ret |-> "Ok", db |-> InsertInto(db, parsed.uuid, feats)]
    ELSE [ret |-> "Err", db |-> InsertInto(db, Repeat(0, 32), feats)]

\* let uuid = Uuid::try_parse(&uuid)?; self.db.insert(uuid, features); Ok(())
RegisterResult(db, parsed, feats) ==
    IF parsed.ok
    THEN [ret |-> "Ok", db |-> InsertInto(db, parsed.uuid, feats)]
    ELSE [ret |-> "Err", db |-> db]

\* Session::register(uuid, audio) on an audio of n samples.
Register(uuid, n) ==
    /\ pc = "setup"
    /\ LET parsed == try_parse(uuid)
       IN  IF ~parsed.ok
           THEN LET r == RegisterResult(database, parsed, <<>>)
                IN  /\ database' = r.db
                    /\ call' = [op |-> "register", uuid |-> uuid, ret |-> r.ret]
                    /\ UNCHANGED pc
           ELSE IF FeaturesPanics(n, extractor)
           THEN /\ pc' = "aborted"
                /\ call' = [op |-> "register", uuid |-> uuid, ret |-> "panic"]
                /\ UNCHANGED database
           ELSE /\ \E sorted \in [1 .. Rows(n, extractor) ->
                                     Rankings(extractor.chroma_bins_per_octave)] :
                       LET r == RegisterResult(database, parsed,
                                               FeaturesOf(sorted, extractor))
                       IN  /\ database' = r.db
                           /\ call' = [op |-> "register", uuid |-> uuid,
                                       ret |-> r.ret]
                /\ UNCHANGED pc
    /\ UNCHANGED <<cfg, head, song_beams, fed, results,
                   rerun_beams, rerun_results, extractor>>

SessionNext ==
    \E uuid \in ParsableIdentifiers \cup UnparsableIdentifiers,
       n \in 0 .. MaxRegisterLen :
        Register(uuid, n)

SessionSpec == SessionInit /\ [][SessionNext]_vars

\* ------------------------------------------------------------ properties

\* C4: after every update, every key holds at most search_beam_count beams.
BeamCountBound ==
    \A k \in DOMAIN song_beams : Len(song_beams[k]) <= cfg.search_beam_count

\* A key with more positions than search_beam_count was updated and holds
\* exactly search_beam_count beams: the trim has discarded candidates.
BeamCountWitness ==
    /\ head >= 1
    /\ \E k \in DOMAIN song_beams :
           /\ Len(database[k]) > cfg.search_beam_count
           /\ Len(song_beams[k]) = cfg.search_beam_count

\* C5: after every update, no two beams of a key have the same key_end.
OneBeamPerEndpoint ==
    \A k \in DOMAIN song_beams :
        \A i, j \in DOMAIN song_beams[k] :
            i # j => key_end(song_beams[k][i].beam) # key_end(song_beams[k][j].beam)

\* A key holds an extended beam, which competed with the seed of its
\* endpoint, beside another beam.
OneBeamPerEndpointWitness ==
    \E k \in DOMAIN song_beams :
        /\ Len(song_beams[k]) >= 2
        /\ \E i \in DOMAIN song_beams[k] : Len(song_beams[k][i].beam.path) >= 2

\* C6: every beam's path advances by 1 to search_window_size positions at
\* each step and stays inside its key.
MonotonePaths ==
    \A k \in DOMAIN song_beams :
        \A i \in DOMAIN song_beams[k] :
            LET path == song_beams[k][i].beam.path
            IN  /\ \A x \in DOMAIN path : 0 <= path[x] /\ path[x] < Len(database[k])
                /\ \A x \in 1 .. (Len(path) - 1) :
                       /\ 1 <= path[x + 1] - path[x]
                       /\ path[x + 1] - path[x] <= cfg.search_window_size

\* A beam has skipped a key position: a stride of search_window_size = 2.
MonotonePathsWitness ==
    \E k \in DOMAIN song_beams :
        \E i \in DOMAIN song_beams[k] :
            LET path == song_beams[k][i].beam.path
            IN  \E x \in 1 .. (Len(path) - 1) :
                    /\ path[x + 1] - path[x] = cfg.search_window_size
                    /\ cfg.search_window_size >= 2

\* C7: every beam's denominator is search_length_penalty + |path|, at
\* least search_length_penalty + 1.
DenominatorIsLength ==
    \A k \in DOMAIN song_beams :
        \A i \in DOMAIN song_beams[k] :
            LET sb == song_beams[k][i]
            IN  /\ sb.score.d = cfg.search_length_penalty + Len(sb.beam.path)
                /\ sb.score.d >= cfg.search_length_penalty + 1

\* A beam extended twice under a length penalty that is not 0.
DenominatorWitness ==
    /\ cfg.search_length_penalty > 0
    /\ \E k \in DOMAIN song_beams :
           \E i \in DOMAIN song_beams[k] : Len(song_beams[k][i].beam.path) = 3

\* The beam of key r.uuid that result r was made from: the one with its
\* key_end.
BeamOf(r) ==
    LET beams == song_beams[r.uuid]
    IN  beams[CHOOSE i \in DOMAIN beams : key_end(beams[i].beam) = r.key_end]

\* C3: finalize returns one result per live beam, carrying the beam's key,
\* first and last position and query_start, in an order of non-decreasing
\* score: as the f32 returned and as the exact rational n/d.
FinalizeRanked ==
    pc = "done" =>
        /\ Len(results) = TotalLen(song_beams)
        /\ \A k \in DOMAIN song_beams :
               \A i \in DOMAIN song_beams[k] :
                   LET sb == song_beams[k][i]
                   IN  \E x \in DOMAIN results :
                           /\ results[x].uuid = k
                           /\ results[x].key_start = sb.beam.path[1]
                           /\ results[x].key_end = sb.beam.path[Len(sb.beam.path)]
                           /\ results[x].query_start = sb.beam.query_start
                           /\ results[x].score = to_f32(sb.score)
        /\ \A x, y \in DOMAIN results :
               x < y =>
                   /\ F32Leq(results[x].score, results[y].score)
                   /\ BeamOf(results[x]).score.n * BeamOf(results[y]).score.d
                          <= BeamOf(results[y]).score.n * BeamOf(results[x]).score.d

\* A finalize over two keys returned three results or more, not all of
\* one score.
FinalizeRankedWitness ==
    /\ pc = "done"
    /\ Len(results) >= 3
    /\ \E x, y \in DOMAIN results :
           /\ results[x].uuid # results[y].uuid
           /\ results[x].score # results[y].score

\* C8: a beam with score (n, d) that update extends by a key position at
\* Hamming distance delta from the new fingerprint has score
\* (n + delta, d + 1) afterwards.
ExtensionAddsDistance ==
    [][ (pc = "query" /\ head' = head + 1) =>
          \A k \in DOMAIN song_beams :
              \A i \in DOMAIN song_beams[k], j \in DOMAIN song_beams'[k] :
                  LET old == song_beams[k][i]
                      new == song_beams'[k][j]
                      delta == Distance(fed'[Len(fed')],
                                        database[k][key_end(new.beam) + 1])
                  IN  ( /\ new.beam.query_start = old.beam.query_start
                        /\ Len(new.beam.path) = Len(old.beam.path) + 1
                        /\ SubSeq(new.beam.path, 1, Len(old.beam.path))
                               = old.beam.path )
                      => /\ new.score.n = old.score.n + delta
                         /\ new.score.d = old.score.d + 1 ]_vars

\* The last update extended a beam by a position at a distance that is
\* not 0 from the fingerprint it was given.
ExtensionWitness ==
    /\ pc = "query"
    /\ \E k \in DOMAIN song_beams :
           \E i \in DOMAIN song_beams[k] :
               LET sb == song_beams[k][i]
               IN  /\ Len(sb.beam.path) >= 2
                   /\ sb.beam.query_start + Len(sb.beam.path) = head
                   /\ Distance(fed[head], database[k][key_end(sb.beam) + 1]) > 0

\* C9: finalize returns no result when the database has no key, and when
\* update was never called.
NoResultsWithoutInput ==
    (pc = "done" /\ (DOMAIN database = {} \/ head = 0)) => results = <<>>

\* A query over the empty database was updated twice or more and finalized.
NoResultsWitness ==
    /\ pc = "done"
    /\ DOMAIN database = {}
    /\ head >= 2
    /\ results = <<>>

\* C10: finalize returns a result when a key has a fingerprint,
\* search_beam_count >= 1 and update was called.
SomeResult ==
    ( /\ pc = "done"
      /\ \E k \in DOMAIN database : Len(database[k]) >= 1
      /\ cfg.search_beam_count >= 1
      /\ head >= 1 )
    => Len(results) >= 1

\* A query with search_beam_count = 1 over a key longer than that and a key
\* with no fingerprint was updated and finalized.
SomeResultWitness ==
    /\ pc = "done"
    /\ head >= 1
    /\ cfg.search_beam_count = 1
    /\ \E k \in DOMAIN database : Len(database[k]) >= 2
    /\ \E k \in DOMAIN database : Len(database[k]) = 0
    /\ Len(results) >= 1

\* C1: two runs on the same configuration, database and fingerprints
\* return the same results, whatever the orders of enumeration.
Determinism == pc = "done" => results = rerun_results

\* The query was fed the fingerprints of the only key u, which has some.
SelfQuery(u) ==
    /\ pc = "done"
    /\ DOMAIN database = {u}
    /\ database[u] # <<>>
    /\ fed = database[u]

\* C2 as stated: the top result of a self query is the key, from query
\* step 0 and key position 0 or 1, and spans as many positions as there
\* were updates.
SelfMatchSpansSteps ==
    \A u \in Uuids :
        SelfQuery(u) =>
            /\ results # <<>>
            /\ results[1].uuid = u
            /\ results[1].query_start = 0
            /\ results[1].key_start \in {0, 1}
            /\ results[1].key_end - results[1].key_start = head

\* C2 as the code has it: key_end is the last position matched, so the
\* span key_end - key_start is one less than the number of updates; and
\* the self match is the top result when search_score_penalty >= 1, which
\* makes a longer exact match score strictly less than a shorter one.
SelfMatchRecall ==
    \A u \in Uuids :
        (SelfQuery(u) /\ cfg.search_score_penalty >= 1) =>
            /\ results # <<>>
            /\ results[1].uuid = u
            /\ results[1].query_start = 0
            /\ results[1].key_start \in {0, 1}
            /\ results[1].key_end - results[1].key_start = head - 1

\* A self query of three fingerprints, not all the same, under a score
\* penalty that is not 0.
SelfMatchWitness ==
    \E u \in Uuids :
        /\ SelfQuery(u)
        /\ cfg.search_score_penalty >= 1
        /\ Len(fed) = 3
        /\ \E x, y \in DOMAIN fed : fed[x] # fed[y]
        /\ results[1].key_end = 2

\* The counterexample to C1 does not rest on a score penalty of 0.
DeterminismDefaultPenalties ==
    (pc = "done" /\ cfg.search_score_penalty = DefaultScorePenalty)
    => results = rerun_results

\* The invariants of a configuration: every size is positive,
\* window_stride <= window_size, quantizer_topk <= chroma_bins_per_octave,
\* and the bins' bits fit the 64 bits of a fingerprint.
ConfigInvariants(e, c) ==
    /\ e.window_size >= 1
    /\ e.window_stride >= 1
    /\ e.chroma_bins_per_octave >= 1
    /\ e.quantizer_bits_per_bin >= 1
    /\ e.quantizer_topk >= 1
    /\ c.search_beam_count >= 1
    /\ c.search_window_size >= 1
    /\ e.window_stride <= e.window_size
    /\ e.quantizer_topk <= e.chroma_bins_per_octave
    /\ e.chroma_bins_per_octave * e.quantizer_bits_per_bin <= FeatureBits

\* C11: a Session, with its extractor and its database, built from a
\* configuration that breaks a configuration invariant is rejected: there
\* is no usable session.
InvalidConfigurationRejected ==
    ConfigInvariants(extractor, cfg) \/ pc = "rejected"

\* C12: register with a text that does not parse as a uuid returns an
\* error and leaves the database as it was: no key added, none replaced.
RegisterRejectsBadIdentifier ==
    [][ (call'.op = "register" /\ call'.uuid \in UnparsableIdentifiers)
          => (call'.ret = "Err" /\ database' = database) ]_vars

\* register was refused for a text of 32 characters, one of them no
\* hexadecimal digit, and the key registered before is still there.
RegisterRejectWitness ==
    /\ call.op = "register"
    /\ call.uuid = Repeat("0", 31) \o << "g" >>
    /\ call.ret = "Err"
    /\ \E k \in DOMAIN database : database[k] # <<>>

\* C13: distance(a, b) is the number of bit positions where a and b
\* differ; distance(f, f) = 0, distance(f, NOT f) = 64,
\* distance(0b1010, 0b1100) = 2 and distance(0, 2^64 - 1) = 64.
DistanceIsPopcount ==
    call.op = "distance" =>
        /\ call.ret = Cardinality({ b \in 0 .. 63 :
                                      (b \in call.self) # (b \in call.other) })
        /\ (call.other = call.self => call.ret = 0)
        /\ (call.other = (0 .. 63) \ call.self => call.ret = 64)
        /\ (call.self = {1, 3} /\ call.other = {2, 3} => call.ret = 2)
        /\ (call.self = {} /\ call.other = 0 .. 63 => call.ret = 64)

\* distance(0b1010, 0b1100) was computed.
DistanceWitness ==
    /\ call.op = "distance"
    /\ call.self = {1, 3}
    /\ call.other = {2, 3}
    /\ call.ret = 2

\* C14: features returns floor((N - W) / S) + 1 fingerprints for N >= W
\* samples and none for N < W; with W = 4096 and S = 2048, 4095 samples
\* give 0, 4096 give 1, 6143 give 1 and 6144 give 2.
FingerprintCount ==
    call.op = "features" =>
        LET n == call.audio
            w == extractor.window_size
            s == extractor.window_stride
        IN  /\ n >= w => Len(call.ret) = (n - w) \div s + 1
            /\ n < w => Len(call.ret) = 0
            /\ (w = 4096 /\ s = 2048) =>
                   /\ n = 4095 => Len(call.ret) = 0
                   /\ n = 4096 => Len(call.ret) = 1
                   /\ n = 6143 => Len(call.ret) = 1
                   /\ n = 6144 => Len(call.ret) = 2

\* The default extractor returned two fingerprints for 6144 samples.
FingerprintCountWitness ==
    /\ call.op = "features"
    /\ extractor = DefaultExtractor
    /\ call.audio = 6144
    /\ Len(call.ret) = 2

\* The value of the 5-bit slot i of fingerprint f.
SlotValue(f, i) ==
    (IF 5 * i \in f THEN 1 ELSE 0) + (IF 5 * i + 1 \in f THEN 2 ELSE 0)
        + (IF 5 * i + 2 \in f THEN 4 ELSE 0) + (IF 5 * i + 3 \in f THEN 8 ELSE 0)
        + (IF 5 * i + 4 \in f THEN 16 ELSE 0)

\* C15: with the default configuration every slot of 5 bits of every
\* fingerprint holds 0, 1, 3, 7, 15 or 31, and the 4 high bits are 0.
QuantizerSlotDiscipline ==
    (call.op = "features" /\ extractor = DefaultExtractor) =>
        \A r \in DOMAIN call.ret :
            /\ \A i \in 0 .. 11 : SlotValue(call.ret[r], i) \in {0, 1, 3, 7, 15, 31}
            /\ call.ret[r] \cap (60 .. 63) = {}

\* The last bin had the greatest chroma value and the bin before it the
\* next: slots 11 and 10 hold the two longest codes.
QuantizerSlotWitness ==
    /\ call.op = "features"
    /\ extractor = DefaultExtractor
    /\ \E r \in DOMAIN call.ret :
           /\ SlotValue(call.ret[r], 11) = 31
           /\ SlotValue(call.ret[r], 10) = 15
           /\ SlotValue(call.ret[r], 0) = 0

\* C16: a beam whose key_end is the last position of its key is dropped
\* by update: it is not among the key's beams afterwards.
EndOfKeyBeamDropped ==
    [][ (pc = "query" /\ head' = head + 1) =>
          \A k \in DOMAIN song_beams :
              \A i \in DOMAIN song_beams[k] :
                  key_end(song_beams[k][i].beam) = Len(database[k]) - 1 =>
                      \A j \in DOMAIN song_beams'[k] :
                          song_beams'[k][j].beam # song_beams[k][i].beam ]_vars

\* C17: every beam's path has one position per query step since the beam
\* was seeded, |path| = head - query_start, and is never empty.
PathPerStep ==
    \A k \in DOMAIN song_beams :
        \A i \in DOMAIN song_beams[k] :
            LET beam == song_beams[k][i].beam
            IN  /\ Len(beam.path) = head - beam.query_start
                /\ beam.path # <<>>

\* C18: update extends a beam with key_end h and a window that is not empty
\* to the position of [h + 1, min(h + 1 + search_window_size, L)) at the
\* least distance from the new fingerprint, the lowest of them on a tie:
\* every beam of the key as update extends it, and every extended beam
\* the key holds afterwards.
ExtendsToLowestBest ==
    [][ (pc = "query" /\ head' = head + 1) =>
          \A k \in DOMAIN song_beams :
              LET L == Len(database[k])
                  d(q) == Distance(fed'[Len(fed')], database[k][q + 1])
                  lo(old) == key_end(old.beam) + 1
                  hi(old) == Min(key_end(old.beam) + 1 + cfg.search_window_size, L)
                  best(old, p) ==
                      /\ lo(old) <= p
                      /\ p < hi(old)
                      /\ \A q \in lo(old) .. (hi(old) - 1) :
                             d(p) < d(q) \/ (d(p) = d(q) /\ p <= q)
              IN  \A i \in DOMAIN song_beams[k] :
                      LET old == song_beams[k][i]
                          e == Extend(old, Scores(database[k], fed'[Len(fed')]), cfg)
                      IN  /\ lo(old) < hi(old) =>
                                 /\ Len(e.beam.path) = Len(old.beam.path) + 1
                                 /\ SubSeq(e.beam.path, 1, Len(old.beam.path))
                                        = old.beam.path
                                 /\ best(old, key_end(e.beam))
                          /\ \A j \in DOMAIN song_beams'[k] :
                                 LET new == song_beams'[k][j]
                                 IN  ( /\ new.beam.query_start = old.beam.query_start
                                       /\ Len(new.beam.path) = Len(old.beam.path) + 1
                                       /\ SubSeq(new.beam.path, 1, Len(old.beam.path))
                                              = old.beam.path )
                                     => best(old, key_end(new.beam)) ]_vars

\* The last update extended a beam by one position out of a window of two
\* positions at the same distance from the fingerprint it was given.
ExtendsToLowestBestWitness ==
    /\ pc = "query"
    /\ cfg.search_window_size = 2
    /\ \E k \in DOMAIN song_beams :
           \E i \in DOMAIN song_beams[k] :
               LET beam == song_beams[k][i].beam
                   n == Len(beam.path)
               IN  /\ n >= 2
                   /\ beam.query_start + n = head
                   /\ beam.path[n] = beam.path[n - 1] + 1
                   /\ beam.path[n] + 1 < Len(database[k])
                   /\ Distance(fed[head], database[k][beam.path[n] + 1])
                          = Distance(fed[head], database[k][beam.path[n] + 2])

\* Two scores as the exact rationals n / d.
ScoreEq(a, b) == a.n * b.d = b.n * a.d
ScoreLeq(a, b) == a.n * b.d <= b.n * a.d

\* The score of the seed update(new_feature) makes at position j of key k.
SeedScoreAt(k, j, new_feature) ==
    [n |-> cfg.search_score_penalty + Distance(new_feature, database[k][j + 1]),
     d |-> cfg.search_length_penalty + 1]

\* The beams of key k as update(new_feature) enters them in the table:
\* extended, or as they were.
Entered(k, new_feature) ==
    { Extend(song_beams[k][i], Scores(database[k], new_feature), cfg) :
        i \in DOMAIN song_beams[k] }

\* Those that update(new_feature) has extended, to endpoint j.
ExtendedTo(k, j, new_feature) ==
    { e \in Entered(k, new_feature) :
        /\ key_end(e.beam) = j
        /\ \A i \in DOMAIN song_beams[k] : song_beams[k][i] # e }

\* C19 as stated: when the seed at position j and a beam extended to j
\* have equal scores, the seed wins: the beam at endpoint j after the
\* update starts at the current head with the path [j].
SeedWinsTies ==
    [][ (pc = "query" /\ head' = head + 1) =>
          \A k \in DOMAIN song_beams :
              \A j \in 0 .. (Len(database[k]) - 1) :
                  (\E e \in ExtendedTo(k, j, fed'[Len(fed')]) :
                       ScoreEq(e.score, SeedScoreAt(k, j, fed'[Len(fed')])))
                  => \A x \in DOMAIN song_beams'[k] :
                         key_end(song_beams'[k][x].beam) = j =>
                             song_beams'[k][x].beam
                                 = [query_start |-> head, path |-> <<j>>] ]_vars

\* C19 as the code has it: when the seed at position j and a beam extended
\* to j have equal scores, the seed does not win: the beam at endpoint j
\* after the update, if the trim has left one, is a beam from before the
\* update, and its score is at most the seed's.
ExistingWinsTies ==
    [][ (pc = "query" /\ head' = head + 1) =>
          \A k \in DOMAIN song_beams :
              \A j \in 0 .. (Len(database[k]) - 1) :
                  (\E e \in ExtendedTo(k, j, fed'[Len(fed')]) :
                       ScoreEq(e.score, SeedScoreAt(k, j, fed'[Len(fed')])))
                  => \A x \in DOMAIN song_beams'[k] :
                         key_end(song_beams'[k][x].beam) = j =>
                             /\ song_beams'[k][x].beam.query_start < head
                             /\ ScoreLeq(song_beams'[k][x].score,
                                         SeedScoreAt(k, j, fed'[Len(fed')])) ]_vars

\* A beam extended by the last update holds its endpoint with a score
\* equal to that of the seed made there.
ExistingWinsTiesWitness ==
    /\ pc = "query"
    /\ \E k \in DOMAIN song_beams :
           \E i \in DOMAIN song_beams[k] :
               LET sb == song_beams[k][i]
               IN  /\ Len(sb.beam.path) >= 2
                   /\ sb.beam.query_start + Len(sb.beam.path) = head
                   /\ ScoreEq(sb.score, SeedScoreAt(k, key_end(sb.beam), fed[head]))

\* C20: after the extension and the seeding, the candidate the table holds
\* for an endpoint is one of those that competed for it, the beams entered
\* at that endpoint and its seed, and none of them has a lesser score; so
\* is every beam the key holds after the update.
TableHoldsMinimum ==
    [][ (pc = "query" /\ head' = head + 1) =>
          \A k \in DOMAIN song_beams :
              \A new_feature \in {fed'[Len(fed')]} :
              \A entered \in {Entered(k, new_feature)} :
              \A table \in {RecombTable(database[k], song_beams[k],
                                        new_feature, cfg)} :
                  LET competitors(j) ==
                          { e \in entered : key_end(e.beam) = j }
                              \cup { [score |-> SeedScoreAt(k, j, new_feature),
                                      beam |-> [query_start |-> head,
                                                path |-> <<j>>]] }
                      least(sb) ==
                          \A cs \in {competitors(key_end(sb.beam))} :
                              /\ sb \in cs
                              /\ \A c \in cs : ScoreLeq(sb.score, c.score)
                  IN  /\ DOMAIN table = 0 .. (Len(database[k]) - 1)
                      /\ \A j \in DOMAIN table :
                             \A held \in {[score |-> table[j].score,
                                           beam |-> to_beam(table[j].cand, head)]} :
                                 key_end(held.beam) = j /\ least(held)
                      /\ \A x \in DOMAIN song_beams'[k] :
                             \A sb \in {song_beams'[k][x]} : least(sb) ]_vars

\* A beam extended by the last update holds its endpoint with a score
\* less than that of the seed made there.
TableHoldsMinimumWitness ==
    /\ pc = "query"
    /\ \E k \in DOMAIN song_beams :
           \E i \in DOMAIN song_beams[k] :
               LET sb == song_beams[k][i]
                   seed == SeedScoreAt(k, key_end(sb.beam), fed[head])
               IN  /\ Len(sb.beam.path) >= 2
                   /\ sb.beam.query_start + Len(sb.beam.path) = head
                   /\ ~ScoreLeq(seed, sb.score)

\* The candidates the table of key k holds after the extension and the
\* seeding of update(new_feature), as the beams they would become.
Held(k, new_feature) ==
    LET table == RecombTable(database[k], song_beams[k], new_feature, cfg)
    IN  { [score |-> table[j].score, beam |-> to_beam(table[j].cand, head)] :
            j \in DOMAIN table }

\* C21: the trim keeps the best candidates. When the table of a key holds
\* more than search_beam_count candidates, exactly search_beam_count of
\* them are retained and no retained candidate has a greater score than a
\* discarded one; when it holds at most search_beam_count, all are
\* retained.
TrimKeepsBest ==
    [][ (pc = "query" /\ head' = head + 1) =>
          \A k \in DOMAIN song_beams :
              \A held \in {Held(k, fed'[Len(fed')])} :
              \A retained \in {{ song_beams'[k][x] : x \in DOMAIN song_beams'[k] }} :
                  /\ retained \subseteq held
                  /\ Cardinality(retained) = Len(song_beams'[k])
                  /\ Len(song_beams'[k])
                         = Min(Cardinality(held), cfg.search_beam_count)
                  /\ \A r \in retained : \A d \in held \ retained :
                         ScoreLeq(r.score, d.score) ]_vars

\* The first update has made seeds of different scores on a key longer
\* than search_beam_count, and a seed of greater score than a retained one
\* is gone.
TrimKeepsBestWitness ==
    /\ pc = "query"
    /\ head = 1
    /\ \E k \in DOMAIN song_beams :
           /\ Len(database[k]) > cfg.search_beam_count
           /\ Len(song_beams[k]) = cfg.search_beam_count
           /\ \E j \in 0 .. (Len(database[k]) - 1) :
                  /\ \A x \in DOMAIN song_beams[k] :
                         key_end(song_beams[k][x].beam) # j
                  /\ \E x \in DOMAIN song_beams[k] :
                         ~ScoreLeq(SeedScoreAt(k, j, fed[1]),
                                   song_beams[k][x].score)

\* C22: head is 0 when the query is made and every update adds exactly one
\* to it, whatever the database holds. A beam the k-th update (k from 0)
\* leaves on a key is either new, made at a seed position j with
\* query_start = k, path = [j] and the score
\* (search_score_penalty + d[j]) / (search_length_penalty + 1), or it
\* continues a beam of before the update, with the same query_start and
\* the same path or the path with one position more.
HeadCountsUpdates ==
    [][ /\ (pc = "setup" /\ pc' = "query") => head' = 0
        /\ (Len(fed') = Len(fed) + 1) =>
              /\ head = Len(fed)
              /\ head' = head + 1
              /\ \A k \in DOMAIN song_beams' :
                     \A x \in DOMAIN song_beams'[k] :
                     \A sb \in {song_beams'[k][x]} :
                         \/ /\ sb.beam.query_start = head
                            /\ sb.beam.path = <<key_end(sb.beam)>>
                            /\ sb.score = SeedScoreAt(k, key_end(sb.beam),
                                                      fed'[Len(fed')])
                         \/ \E i \in DOMAIN song_beams[k] :
                                \A old \in {song_beams[k][i].beam} :
                                    /\ old.query_start < head
                                    /\ sb.beam.query_start = old.query_start
                                    /\ \/ sb.beam.path = old.path
                                       \/ /\ Len(sb.beam.path) = Len(old.path) + 1
                                          /\ SubSeq(sb.beam.path, 1, Len(old.path))
                                                 = old.path ]_vars

\* After two updates a key holds a beam the second update has made, and a
\* beam of the first update that the second has extended.
HeadCountsUpdatesWitness ==
    /\ pc = "query"
    /\ head = 2
    /\ \E k \in DOMAIN song_beams :
           /\ \E x \in DOMAIN song_beams[k] :
                  /\ song_beams[k][x].beam.query_start = 1
                  /\ Len(song_beams[k][x].beam.path) = 1
           /\ \E x \in DOMAIN song_beams[k] :
                  /\ song_beams[k][x].beam.query_start = 0
                  /\ Len(song_beams[k][x].beam.path) = 2

\* ------------------------------------------------- the reference engine

\* Fingerprints at the distances 32 and 64 of each other: 0, 2^32 - 1 and
\* 2^64 - 1.
WideFeatures == { {}, 0 .. 31, Bits }

\* The configurations whose search_beam_count no key of the model's sizes
\* reaches: the trim discards nothing.
UntrimmedConfigurations ==
    { c \in Configurations : c.search_beam_count = DefaultBeamCount }

UntrimmedInit ==
    /\ cfg \in UntrimmedConfigurations
    /\ database = [k \in {} |-> <<>>]
    /\ pc = "setup"
    /\ head = 0
    /\ song_beams = [k \in {} |-> <<>>]
    /\ fed = <<>>
    /\ results = <<>>
    /\ rerun_beams = [k \in {} |-> <<>>]
    /\ rerun_results = <<>>
    /\ extractor = DefaultExtractor
    /\ call = NoCall

\* update treats every key by itself: the comparison with the reference
\* engine is made on a database of one key.
SingleKey == {1}

UntrimmedNext ==
    \/ \E key \in SingleKey :
           \E features \in UNION { [1 .. n -> WideFeatures] : n \in 0 .. MaxKeyLen } :
               Insert(key, features)
    \/ NewQuery
    \/ \E new_feature \in WideFeatures : Update(new_feature)
    \/ Finalize

\* The query machine on the wider fingerprints, never trimming.
UntrimmedSpec == UntrimmedInit /\ [][UntrimmedNext]_vars

\* The beams of a key in an engine that extends and seeds as update does,
\* step by step over the fingerprints `queries`, and keeps every beam:
\* no table, no competition for an endpoint.
RECURSIVE ReferenceBeams(_, _, _)
ReferenceBeams(features, queries, c) ==
    IF queries = <<>> THEN {}
    ELSE LET step == Len(queries) - 1
             before == ReferenceBeams(features, SubSeq(queries, 1, step), c)
             scores == Scores(features, queries[step + 1])
         IN  { Extend(sb, scores, c) : sb \in before }
                 \cup { [score |-> SeedScore(scores[j + 1], c),
                         beam |-> [query_start |-> step, path |-> <<j>>]] :
                          j \in 0 .. (Len(features) - 1) }

\* C23 as stated: when the trim discards nothing, at every step and for
\* every endpoint of every key, the least score among the beams ending
\* there is the least score among the beams the reference engine, which
\* keeps every beam, has ending there.
PruningLossless ==
    pc = "query" =>
        \A k \in DOMAIN song_beams :
            \A reference \in {ReferenceBeams(database[k], fed, cfg)} :
            \A j \in 0 .. (Len(database[k]) - 1) :
                /\ \A rb \in reference :
                       key_end(rb.beam) = j =>
                           \E x \in DOMAIN song_beams[k] :
                               /\ key_end(song_beams[k][x].beam) = j
                               /\ ScoreLeq(song_beams[k][x].score, rb.score)
                /\ \A x \in DOMAIN song_beams[k] :
                       key_end(song_beams[k][x].beam) = j =>
                           \E rb \in reference :
                               /\ key_end(rb.beam) = j
                               /\ ScoreLeq(rb.score, song_beams[k][x].score)

\* Every beam of the engine is a beam of the reference engine.
EngineWithinReference ==
    pc = "query" =>
        \A k \in DOMAIN song_beams :
            \A x \in DOMAIN song_beams[k] :
                song_beams[k][x] \in ReferenceBeams(database[k], fed, cfg)

\* ------------------------------------------------ comparisons of scores

\* a * b in full, for two u32: its eight bytes, the most significant first.
MulWide(a, b) ==
    LET a0 == Byte(a, 0)
        a1 == Byte(a, 1)
        a2 == Byte(a, 2)
        a3 == Byte(a, 3)
        b0 == Byte(b, 0)
        b1 == Byte(b, 1)
        b2 == Byte(b, 2)
        b3 == Byte(b, 3)
        c0 == a0 * b0
        s1 == a0 * b1 + a1 * b0 + (c0 \div 256)
        s2 == a0 * b2 + a1 * b1 + a2 * b0 + (s1 \div 256)
        s3 == a0 * b3 + a1 * b2 + a2 * b1 + a3 * b0 + (s2 \div 256)
        s4 == a1 * b3 + a2 * b2 + a3 * b1 + (s3 \div 256)
        s5 == a2 * b3 + a3 * b2 + (s4 \div 256)
        s6 == a3 * b3 + (s5 \div 256)
        s7 == s6 \div 256
    IN  << s7 % 256, s6 % 256, s5 % 256, s4 % 256,
           s3 % 256, s2 % 256, s1 % 256, c0 % 256 >>

\* a * b does not fit in a u32. The build with overflow checks panics
\* there ("attempt to multiply with overflow"); the build without wraps.
MulOverflows(a, b) == SubSeq(MulWide(a, b), 1, 4) # <<0, 0, 0, 0>>

\* The order of the rationals self.n / self.d and other.n / other.d.
ExactCmp(self, other) ==
    CmpVec(MulWide(self.n, other.d), MulWide(other.n, self.d))

\* One of the two products of cmp and eq does not fit.
CrossProductsOverflow(self, other) ==
    MulOverflows(self.n, other.d) \/ MulOverflows(other.n, self.d)

\* impl PartialEq for Fraction: self.n * other.d == other.n * self.d
FractionEq(self, other) ==
    WrappingMul(self.n, other.d) = WrappingMul(other.n, self.d)

\* The number of updates of a long query: a stream of some 24 minutes at
\* the default sample rate and stride.
LongQuery == 8190

\* Scores a query of LongQuery updates reaches under the configuration c:
\* beams of 1, 2 and LongQuery positions, whose distances add up to
\* nothing, to 2, to 64 per position, and to 35 and 36 less than that.
FractionInputs(c) ==
    { [n |-> c.search_score_penalty + sum, d |-> c.search_length_penalty + len] :
        <<len, sum>> \in
            UNION { { <<len, 0>>, <<len, 2>>, <<len, 64 * len>>,
                      <<len, 64 * len - 35>>, <<len, 64 * len - 36>> } :
                    len \in {1, 2, LongQuery} } }

\* Database::from(DatabaseConfiguration::from(SessionConfiguration::default())),
\* before any comparison of two scores.
FractionInit ==
    /\ cfg = DatabaseConfigurationFrom(DefaultSession)
    /\ extractor = DefaultExtractor
    /\ database = [k \in {} |-> <<>>]
    /\ pc = "setup"
    /\ head = 0
    /\ song_beams = [k \in {} |-> <<>>]
    /\ fed = <<>>
    /\ results = <<>>
    /\ rerun_beams = [k \in {} |-> <<>>]
    /\ rerun_results = <<>>
    /\ call = NoCall

\* Fraction::cmp(&self, other): the order of the two u32 products. Where a
\* product does not fit, the call panics or compares the wrapped
\* products, as the build has it.
FractionCompare(self, other) ==
    /\ call = NoCall
    /\ \E panics \in {FALSE} \cup {CrossProductsOverflow(self, other)} :
           call' = [op |-> "cmp", self |-> self, other |-> other,
                    panicked |-> panics,
                    ret |-> IF panics THEN 0 ELSE FractionCmp(self, other)]
    /\ UNCHANGED <<cfg, database, pc, head, song_beams, fed, results,
                   rerun_beams, rerun_results, extractor>>

\* Fraction::eq(&self, other), with the same two products.
FractionEquals(self, other) ==
    /\ call = NoCall
    /\ \E panics \in {FALSE} \cup {CrossProductsOverflow(self, other)} :
           call' = [op |-> "eq", self |-> self, other |-> other,
                    panicked |-> panics,
                    ret |-> IF panics THEN 0
                            ELSE IF FractionEq(self, other) THEN 1 ELSE 0]
    /\ UNCHANGED <<cfg, database, pc, head, song_beams, fed, results,
                   rerun_beams, rerun_results, extractor>>

FractionNext ==
    \/ \E self \in FractionInputs(cfg), other \in FractionInputs(cfg) :
           FractionCompare(self, other)
    \/ \E self \in FractionInputs(cfg), other \in FractionInputs(cfg) :
           FractionEquals(self, other)

FractionSpec == FractionInit /\ [][FractionNext]_vars

RECURSIVE AccumulatedDistance(_, _, _)
AccumulatedDistance(features, beam, n) ==
    IF n = 0 THEN 0
    ELSE Distance(fed[beam.query_start + n], features[beam.path[n] + 1])
             + AccumulatedDistance(features, beam, n - 1)

\* C25: in every state a sequence of updates reaches, the numerator of
\* every beam's score is search_score_penalty plus the sum, over the
\* positions i of its path, of the Hamming distance between the query
\* fingerprint of step query_start + i and the key fingerprint at path[i].
NumeratorIsAccumulatedDistance ==
    pc \in {"query", "done"} =>
        \A k \in DOMAIN song_beams :
            \A x \in DOMAIN song_beams[k] :
                \A sb \in {song_beams[k][x]} :
                    /\ sb.beam.query_start + Len(sb.beam.path) <= Len(fed)
                    /\ sb.score.n
                           = cfg.search_score_penalty
                               + AccumulatedDistance(database[k], sb.beam,
                                                     Len(sb.beam.path))

\* Under a positive penalty, a beam of three positions on a key of two
\* different fingerprints has met a distance of 0 and a positive one.
NumeratorWitness ==
    /\ pc = "query"
    /\ cfg.search_score_penalty > 0
    /\ \E k \in DOMAIN song_beams :
           \E x \in DOMAIN song_beams[k] :
               LET beam == song_beams[k][x].beam
               IN  /\ Len(beam.path) = 3
                   /\ \E i, j \in 1 .. 3 :
                          /\ database[k][beam.path[i] + 1]
                                 # database[k][beam.path[j] + 1]
                          /\ Distance(fed[beam.query_start + i],
                                      database[k][beam.path[i] + 1]) = 0
                          /\ Distance(fed[beam.query_start + j],
                                      database[k][beam.path[j] + 1]) > 0

====
